---- MODULE Spec2Model ----
(***************************************************************************)
(* A model of src/tmdbv2.py: the retry-wrapped TMDB request, the client    *)
(* operations built on it, the MongoDB store functions and the Telegram    *)
(* handlers.                                                               *)
(*                                                                         *)
(* Five specifications share the variables:                                *)
(*   SpecClient     the API client as pure functions: Init draws an        *)
(*                  operation and the behaviour of the remote API, one     *)
(*                  action applies the operation;                          *)
(*   SpecStore      the store functions called one after the other;        *)
(*   SpecFav        the two favorite buttons as concurrent tasks;          *)
(*   Spec           the commands and the inline query, an update at a time;*)
(*   SpecFavorites  /favorites and the buttons, an update at a time.       *)
(***************************************************************************)
EXTENDS Integers, Sequences, FiniteSets, TLC

VARIABLES
    cin,        \* SpecClient: the operation and the scripted API behaviour
    cout,       \* SpecClient: what the operation gave back
    users,      \* users_collection: the user ids it holds (keyed by user_id)
    searches,   \* searches_collection: the log, oldest first
    favorites,  \* favorites_collection: number of documents per (user, movie)
    admins,     \* admins_collection: the user ids it holds
    calls,      \* SpecStore: the last two store calls, oldest first
    tasks,      \* SpecFav: the handler tasks in flight
    last        \* Spec: what the last handler did

vars == <<cin, cout, users, searches, favorites, admins, calls, tasks, last>>

(***************************************************************************)
(* Bounds of the model.                                                    *)
(***************************************************************************)
\* outcomes scripted for the successive invocations of one request
MaxAtt == 4
\* longest result list the remote API returns
MaxResults == 6
\* user ids 1..MaxUsers, movie ids 1..MaxMovies
MaxUsers == 2
MaxMovies == 1
\* handler tasks in flight at once
MaxTasks == 2
\* documents the searches log may hold
MaxSearches == 1

(***************************************************************************)
(* Program constants.                                                      *)
(***************************************************************************)
\* retry_on_failure(max_retries=3, delay=5)
max_retries == 3
delay == 5
\* response.get("results", [])[:5]
ListLimit == 5

(***************************************************************************)
(* Values.                                                                 *)
(***************************************************************************)
None == [kind |-> "None"]
\* a key that a JSON object does not have
NoId == 0 - 1

Min(a, b) == IF a < b THEN a ELSE b

Users == 1..MaxUsers
Movies == 1..MaxMovies
\* the key of a favorite: (user_id, movie_id)
Keys == Users \X Movies
\* CONFIG['admin_ids'], from the environment
AdminIds == {1}

(***************************************************************************)
(* The remote API.  One invocation of requests.get ends in one of:         *)
(*   ok          a 2xx response whose body parses                          *)
(*   timeout, connection, http_error                                       *)
(*               a requests.exceptions.RequestException                    *)
(*   exception   any exception that is not a RequestException              *)
(***************************************************************************)
RawOutcomes == {"ok", "timeout", "connection", "http_error", "exception"}
RequestException == {"timeout", "connection", "http_error"}

\* the body of a list endpoint (search, trending, popular): the ids of its
\* results in order, NoId for a result without an "id" key; falsy is {}
ListBody(n, miss) ==
    [kind |-> "json", falsy |-> FALSE,
     results |-> [i \in 1..n |-> IF i = miss THEN NoId ELSE i]]
EmptyJson == [kind |-> "json", falsy |-> TRUE, results |-> <<>>]
ListBodies ==
    {EmptyJson} \cup UNION {{ListBody(n, miss) : miss \in 0..n} : n \in 0..MaxResults}

\* the shape of a detail body: whether it has "id" (other_id: an id that is
\* not the one asked for), and whether its nested optional fields have the
\* types get_movie_by_id reads them with
DetailShapes == {"full", "other_id", "noid", "malformed", "falsy"}
DetailBody(movie_id, shape) ==
    [kind |-> "json", falsy |-> shape = "falsy",
     id |-> IF shape \in {"full", "malformed"} THEN movie_id
            ELSE IF shape = "other_id" THEN movie_id + 1
            ELSE NoId,
     nested |-> IF shape = "malformed" THEN "malformed" ELSE "ok"]

\* an attempt script: prefix, then ok for ever
Script(prefix) == [i \in 1..MaxAtt |-> IF i <= Len(prefix) THEN prefix[i] ELSE "ok"]
AllScripts == [1..MaxAtt -> RawOutcomes]
Scripts == {Script(<<>>), Script(<<"timeout">>), Script(<<"exception", "exception">>),
            Script(<<"exception", "exception", "exception">>)}

(***************************************************************************)
(* make_tmdb_request and its decorator.                                    *)
(***************************************************************************)
\* the events of a wrapper's run: an invocation of the wrapped coroutine, and
\* a time.sleep
Call == [ev |-> "call"]
Sleep(secs) == [ev |-> "sleep", secs |-> secs]

\* the decorated coroutine, invoked once: the RequestException is caught
\* inside it and None returned; anything else leaves it as an exception
make_tmdb_request_body(raw, body) ==
    IF raw = "ok" THEN [kind |-> "return", val |-> body]
    ELSE IF raw \in RequestException THEN [kind |-> "return", val |-> None]
    ELSE [kind |-> "raise", val |-> None]

\* a faulty variant: the loop sleeps after every failed attempt, the last one too
RECURSIVE wrapper_sleep_always(_, _, _, _)
wrapper_sleep_always(att, body, retries, trace) ==
    IF retries < max_retries
    THEN LET r == make_tmdb_request_body(att[retries + 1], body)
             t1 == Append(trace, Call)
         IN  IF r.kind = "return"
             THEN [kind |-> "return", val |-> r.val, trace |-> t1]
             ELSE wrapper_sleep_always(att, body, retries + 1, Append(t1, Sleep(delay)))
    ELSE [kind |-> "raise", val |-> None, trace |-> trace]

\* the while loop of wrapper: every failed invocation raises retries by one,
\* so invocation number retries + 1 is the next; trace lists the invocations
\* and the time.sleep(delay) calls in order.  The else branch runs a bare
\* raise with no exception being handled: a RuntimeError leaves the wrapper.
RECURSIVE wrapper(_, _, _, _)
wrapper(att, body, retries, trace) ==
    IF retries < max_retries
    THEN LET r == make_tmdb_request_body(att[retries + 1], body)
             t1 == Append(trace, Call)
         IN  IF r.kind = "return"
             THEN [kind |-> "return", val |-> r.val, trace |-> t1]
             ELSE wrapper(att, body, retries + 1,
                          IF retries + 1 < max_retries THEN Append(t1, Sleep(delay)) ELSE t1)
    ELSE [kind |-> "raise", val |-> None, trace |-> trace]

\* await make_tmdb_request(url), the API behaving as env = [att, body]
make_tmdb_request(env) == wrapper(env.att, env.body, 0, <<>>)

\* Python's "not response"
Falsy(val) == val = None \/ val.falsy

(***************************************************************************)
(* The client operations.  Each gives back [ret, exc, log]: the value      *)
(* returned (None when an exception left the operation instead, exc), and  *)
(* the requests it issued, in order.  A request's env tells how the API    *)
(* answers it: att, the outcomes of its successive invocations, and the    *)
(* shape of the body.                                                      *)
(***************************************************************************)
Movie(response, movie_id) ==
    [kind |-> "movie", id |-> response.id, tmdb_link |-> movie_id]

\* the try block of get_movie_by_id: any exception raised while the fields
\* are read is caught there and None returned
movie_data(response, movie_id) ==
    IF response.nested = "malformed" THEN None ELSE Movie(response, movie_id)

\* a request as logged: failed says that every invocation it made failed (it
\* gave None or raised), usable that its caller went on with the response
LogEntry(url, id, r, usable) ==
    [url |-> url, id |-> id, kind |-> r.kind, trace |-> r.trace,
     failed |-> (r.kind = "raise" \/ r.val = None), usable |-> usable]

\* a faulty variant: a response without "id" is made a record of all the same
get_movie_by_id_nocheck(movie_id, env) ==
    LET r == make_tmdb_request([att |-> env.att, body |-> DetailBody(movie_id, env.shape)])
        ret == IF r.kind = "raise" \/ Falsy(r.val) THEN None
               ELSE movie_data(r.val, movie_id)
    IN  [ret |-> ret, exc |-> r.kind = "raise",
         log |-> <<LogEntry("movie", movie_id, r, ret # None)>>]

get_movie_by_id(movie_id, env) ==
    LET r == make_tmdb_request([att |-> env.att, body |-> DetailBody(movie_id, env.shape)])
        ret == IF r.kind = "raise" \/ Falsy(r.val) THEN None
               ELSE IF r.val.id = NoId THEN None
               ELSE movie_data(r.val, movie_id)
    IN  [ret |-> ret, exc |-> r.kind = "raise",
         log |-> <<LogEntry("movie", movie_id, r, ret # None)>>]

\* how the API answers the k-th detail fetch of an operation
DefaultDetail == [att |-> Script(<<>>), shape |-> "full"]
EnvAt(envs, k) == IF k \in DOMAIN envs THEN envs[k] ELSE DefaultDetail

get_movie_by_name(env) ==
    LET r == make_tmdb_request(env.list)
        log == <<LogEntry("search", NoId, r,
                          r.kind = "return" /\ ~Falsy(r.val) /\ Len(r.val.results) > 0
                              /\ r.val.results[1] # NoId)>>
    IN  IF r.kind = "raise" THEN [ret |-> None, exc |-> TRUE, log |-> log]
        ELSE IF Falsy(r.val) THEN [ret |-> None, exc |-> FALSE, log |-> log]
        ELSE IF Len(r.val.results) > 0 /\ r.val.results[1] # NoId
        THEN LET d == get_movie_by_id(r.val.results[1], EnvAt(env.details, 1))
             IN  [ret |-> d.ret, exc |-> d.exc, log |-> log \o d.log]
        ELSE [ret |-> None, exc |-> FALSE, log |-> log]

\* a faulty variant: a detail fetch that gives None is left out of the list
RECURSIVE fetch_details_drop(_, _, _, _, _)
fetch_details_drop(ids, envs, k, items, log) ==
    IF k > Len(ids)
    THEN [ret |-> [kind |-> "list", items |-> items], exc |-> FALSE, log |-> log]
    ELSE IF ids[k] = NoId THEN [ret |-> None, exc |-> TRUE, log |-> log]
    ELSE LET d == get_movie_by_id(ids[k], EnvAt(envs, k))
         IN  IF d.exc THEN [ret |-> None, exc |-> TRUE, log |-> log \o d.log]
             ELSE fetch_details_drop(ids, envs, k + 1,
                      IF d.ret = None THEN items ELSE Append(items, d.ret),
                      log \o d.log)

\* a faulty variant: the list is built in the reverse of the order of the fetches
RECURSIVE fetch_details_reversed(_, _, _, _, _)
fetch_details_reversed(ids, envs, k, items, log) ==
    IF k > Len(ids)
    THEN [ret |-> [kind |-> "list", items |-> items], exc |-> FALSE, log |-> log]
    ELSE IF ids[k] = NoId THEN [ret |-> None, exc |-> TRUE, log |-> log]
    ELSE LET d == get_movie_by_id(ids[k], EnvAt(envs, k))
         IN  IF d.exc THEN [ret |-> None, exc |-> TRUE, log |-> log \o d.log]
             ELSE fetch_details_reversed(ids, envs, k + 1, <<d.ret>> \o items,
                                         log \o d.log)

\* [await get_movie_by_id(movie["id"]) for movie in ...]: one fetch after the
\* other, in list order; movie["id"] of a result without the key is a
\* KeyError, and that or an exception of a fetch leaves the comprehension
RECURSIVE fetch_details(_, _, _, _, _)
fetch_details(ids, envs, k, items, log) ==
    IF k > Len(ids)
    THEN [ret |-> [kind |-> "list", items |-> items], exc |-> FALSE, log |-> log]
    ELSE IF ids[k] = NoId THEN [ret |-> None, exc |-> TRUE, log |-> log]
    ELSE LET d == get_movie_by_id(ids[k], EnvAt(envs, k))
         IN  IF d.exc THEN [ret |-> None, exc |-> TRUE, log |-> log \o d.log]
             ELSE fetch_details(ids, envs, k + 1, Append(items, d.ret), log \o d.log)

\* get_trending_movies and get_popular_movies differ in the url only
list_movies(url, env) ==
    LET r == make_tmdb_request(env.list)
        log == <<LogEntry(url, NoId, r,
                          r.kind = "return" /\ ~Falsy(r.val) /\ Len(r.val.results) > 0)>>
    IN  IF r.kind = "raise" THEN [ret |-> None, exc |-> TRUE, log |-> log]
        ELSE IF Falsy(r.val) \/ Len(r.val.results) = 0
        THEN [ret |-> None, exc |-> FALSE, log |-> log]
        ELSE fetch_details(SubSeq(r.val.results, 1, Min(ListLimit, Len(r.val.results))),
                           env.details, 1, <<>>, log)

get_trending_movies(env) == list_movies("trending", env)
get_popular_movies(env) == list_movies("popular", env)

(***************************************************************************)
(* The store functions.  A collection is taken in and given back, with the *)
(* function's return value.  favorites holds, per key, the number of       *)
(* documents with that user_id and movie_id: the collection has no unique  *)
(* index, so nothing but add_favorite's own check keeps it at one.         *)
(***************************************************************************)
\* users_collection.update_one({'user_id': user.id}, ..., upsert=True)
add_user(us, user_id) == us \cup {user_id}

\* a faulty variant: everybody is an admin
is_admin_anyone(adm, user_id) == TRUE

is_admin(adm, user_id) == user_id \in adm \/ user_id \in AdminIds

log_search(log, user_id, query, movie_id) ==
    Append(log, [user_id |-> user_id, query |-> query, movie_id |-> movie_id])

\* a faulty variant: insert without looking for the key first
add_favorite_nocheck(favs, user_id, movie_id) ==
    [favs |-> [favs EXCEPT ![<<user_id, movie_id>>] = @ + 1], ret |-> TRUE]

add_favorite(favs, user_id, movie_id) ==
    IF favs[<<user_id, movie_id>>] > 0
    THEN [favs |-> favs, ret |-> FALSE]
    ELSE [favs |-> [favs EXCEPT ![<<user_id, movie_id>>] = @ + 1], ret |-> TRUE]

\* a faulty variant: the filter of delete_one names the movie only
remove_favorite_any(favs, user_id, movie_id) ==
    IF \E u \in Users : favs[<<u, movie_id>>] > 0
    THEN LET u == CHOOSE u \in Users : favs[<<u, movie_id>>] > 0
         IN  [favs |-> [favs EXCEPT ![<<u, movie_id>>] = @ - 1], ret |-> TRUE]
    ELSE [favs |-> favs, ret |-> FALSE]

\* delete_one removes one document that matches, if there is one
remove_favorite(favs, user_id, movie_id) ==
    IF favs[<<user_id, movie_id>>] > 0
    THEN [favs |-> [favs EXCEPT ![<<user_id, movie_id>>] = @ - 1], ret |-> TRUE]
    ELSE [favs |-> favs, ret |-> FALSE]

get_favorites(favs, user_id) == {m \in Movies : favs[<<user_id, m>>] > 0}

get_all_users(us) == us

Idle == [pc |-> "idle"]

\* what a handler run leaves behind: the reply the user got ("none": no
\* reply), whether something raised while it ran (failed), whether an
\* exception left the handler (escaped), and for a broadcast the recipients
\* tried in order, the recipients whose send_message raises, and the counts;
\* fetch tells how the handler's movie fetch ended ("none": it made none)
Result(handler, user, movie, reply, failed, escaped) ==
    [handler |-> handler, user |-> user, movie |-> movie, reply |-> reply,
     failed |-> failed, escaped |-> escaped, fetch |-> "none",
     sent |-> <<>>, failing |-> {}, success |-> 0, failures |-> 0]

\* how a fetch r of one movie (get_movie_by_name, get_movie_by_id) ended:
\* with a record, with the API failing every invocation of its last request
\* ("down"), or with the API answering and no record made of the answer
FetchStatus(r) ==
    IF r.ret # None THEN "record"
    ELSE IF r.log[Len(r.log)].failed THEN "down"
    ELSE "empty"

\* the result of a handler run that fetched r
After(r, res) == [res EXCEPT !.fetch = FetchStatus(r)]

\* a faulty variant: the loop is left at the first send_message that raises
RECURSIVE send_all_abort(_, _, _, _)
send_all_abort(order, failing, k, acc) ==
    IF k > Len(order) THEN acc
    ELSE IF order[k] \in failing
    THEN [acc EXCEPT !.sent = Append(@, order[k]), !.failures = @ + 1]
    ELSE send_all_abort(order, failing, k + 1,
                        [acc EXCEPT !.sent = Append(@, order[k]), !.success = @ + 1])

\* the for loop of broadcast_message over users, in the order the store
\* gave them; the try inside the loop catches the exception of a send
RECURSIVE send_all(_, _, _, _)
send_all(order, failing, k, acc) ==
    IF k > Len(order) THEN acc
    ELSE send_all(order, failing, k + 1,
                  IF order[k] \in failing
                  THEN [acc EXCEPT !.sent = Append(@, order[k]), !.failures = @ + 1]
                  ELSE [acc EXCEPT !.sent = Append(@, order[k]), !.success = @ + 1])

\* the orders in which find() may give the documents of a collection
Orders(S) == {f \in [1..Cardinality(S) -> S] : \A i, j \in DOMAIN f : f[i] = f[j] => i = j}

\* the for loop of show_stats over the top movies: a fetch that raises
\* leaves the loop, one that gives None adds an "ID ..." line
RECURSIVE stats_raises(_, _, _)
stats_raises(ids, envs, k) ==
    IF k > Len(ids) THEN FALSE
    ELSE get_movie_by_id(ids[k], EnvAt(envs, k)).exc \/ stats_raises(ids, envs, k + 1)

\* the movie ids get_search_stats groups the log by ($ne None)
top_movies(log) == {log[i].movie_id : i \in DOMAIN log} \ {NoId}

(***************************************************************************)
(* SpecClient: Init draws the operation and the API's behaviour, the       *)
(* action applies the operation.                                           *)
(***************************************************************************)
DetailEnvs == [att : Scripts, shape : DetailShapes]
\* the behaviours of a detail fetch that the list operations are run on
DetailClasses ==
    {[att |-> Script(<<>>), shape |-> "full"], [att |-> Script(<<>>), shape |-> "noid"],
     [att |-> Script(<<"timeout">>), shape |-> "full"],
     [att |-> Script(<<"exception", "exception", "exception">>), shape |-> "full"]}
NoDetails == [k \in 1..ListLimit |-> DefaultDetail]

\* the inputs of the five operations
IsRequestInput(c) ==
    \E a \in AllScripts, b \in {DetailBody(1, "full"), EmptyJson} :
        c = [op |-> "request", id |-> NoId, env |-> [att |-> a, body |-> b]]
IsByIdInput(c) ==
    \E m \in 1..2, a \in AllScripts, s \in DetailShapes :
        c = [op |-> "by_id", id |-> m, env |-> [att |-> a, shape |-> s]]
IsSearchInput(c) ==
    \E a \in Scripts, b \in ListBodies, d \in DetailEnvs :
        c = [op |-> "search", id |-> NoId,
             env |-> [list |-> [att |-> a, body |-> b], details |-> <<d>>]]
\* a list operation: the list request failing in each way, and the list
\* request answered with each detail fetch behaving in each way
IsListInput(c, op) ==
    \/ \E a \in Scripts \ {Script(<<>>)}, b \in ListBodies :
        c = [op |-> op, id |-> NoId,
             env |-> [list |-> [att |-> a, body |-> b], details |-> NoDetails]]
    \/ \E b \in ListBodies, ds \in [1..ListLimit -> DetailClasses] :
        c = [op |-> op, id |-> NoId,
             env |-> [list |-> [att |-> Script(<<>>), body |-> b], details |-> ds]]

Pending == [state |-> "pending"]
Done(r) == [state |-> "done", ret |-> r.ret, exc |-> r.exc, log |-> r.log]

StoreInit ==
    /\ users = {}
    /\ searches = <<>>
    /\ favorites = [k \in Keys |-> 0]
    /\ admins = AdminIds
    /\ calls = <<>>
    /\ tasks = [t \in 1..MaxTasks |-> Idle]
    /\ last = Result("none", 1, NoId, "none", FALSE, FALSE)

InitClient ==
    /\ \/ IsRequestInput(cin)
       \/ IsByIdInput(cin)
       \/ IsSearchInput(cin)
       \/ IsListInput(cin, "trending")
       \/ IsListInput(cin, "popular")
    /\ cout = Pending
    /\ StoreInit

store == <<users, searches, favorites, admins, calls, tasks, last>>

RunRequest ==
    /\ cout = Pending /\ cin.op = "request"
    /\ LET r == make_tmdb_request(cin.env)
       IN  cout' = Done([ret |-> r.val, exc |-> r.kind = "raise",
                         log |-> <<LogEntry("raw", NoId, r, r.kind = "return" /\ ~Falsy(r.val))>>])
    /\ UNCHANGED <<cin, store>>

RunById ==
    /\ cout = Pending /\ cin.op = "by_id"
    /\ cout' = Done(get_movie_by_id(cin.id, cin.env))
    /\ UNCHANGED <<cin, store>>

RunSearch ==
    /\ cout = Pending /\ cin.op = "search"
    /\ cout' = Done(get_movie_by_name(cin.env))
    /\ UNCHANGED <<cin, store>>

RunTrending ==
    /\ cout = Pending /\ cin.op = "trending"
    /\ cout' = Done(get_trending_movies(cin.env))
    /\ UNCHANGED <<cin, store>>

RunPopular ==
    /\ cout = Pending /\ cin.op = "popular"
    /\ cout' = Done(get_popular_movies(cin.env))
    /\ UNCHANGED <<cin, store>>

NextClient == RunRequest \/ RunById \/ RunSearch \/ RunTrending \/ RunPopular

SpecClient == InitClient /\ [][NextClient]_vars

(***************************************************************************)
(* Claims about the client, checked under SpecClient.                      *)
(***************************************************************************)
NCalls(trace) == Cardinality({i \in DOMAIN trace : trace[i] = Call})
ClientDone(op) == cout.state = "done" /\ cin.op = op
ListOps == {"trending", "popular"}

\* C1: a request that fails with a transport-level error on attempts 1 and 2
\* and succeeds on attempt 3 performs three attempts and returns the third
\* attempt's response, with no failure reported.
C1_TransportErrorIsRetried ==
    (/\ ClientDone("request")
     /\ cin.env.att[1] \in RequestException
     /\ cin.env.att[2] \in RequestException
     /\ cin.env.att[3] = "ok")
    => (/\ NCalls(cout.log[1].trace) = 3
        /\ ~cout.exc
        /\ cout.ret = cin.env.body)

\* C2: a request whose three attempts all fail returns None to its caller:
\* no exception leaves the wrapped call, whatever the attempts raised.
C2_ExhaustedReturnsNone ==
    (ClientDone("request") /\ \A i \in 1..max_retries : cin.env.att[i] # "ok")
    => (~cout.exc /\ cout.ret = None)

\* the trace of a wrapper run that made n invocations: call, sleep, call, ...,
\* call: a sleep of delay between two invocations and nowhere else
Alternates(trace, n) ==
    /\ Len(trace) = 2 * n - 1
    /\ \A i \in DOMAIN trace :
        trace[i] = IF i % 2 = 1 THEN Call ELSE Sleep(delay)

\* C3: whatever the attempts' outcomes, a wrapped request ends after at most 3
\* invocations, no invocation follows one that did not raise, and the delay is
\* taken between two invocations only, never after the last.
C3_RetryBounded ==
    cout.state = "done" =>
        /\ \A k \in DOMAIN cout.log :
            LET n == NCalls(cout.log[k].trace)
            IN  n \in 1..max_retries /\ Alternates(cout.log[k].trace, n)
        /\ cin.op = "request" =>
            LET n == NCalls(cout.log[1].trace)
            IN  /\ \A j \in 1..(n - 1) : cin.env.att[j] \notin RequestException \cup {"ok"}
                /\ cout.exc <=> (n = max_retries /\ cin.env.att[n] = "exception")
                /\ (cin.env.att[n] = "ok") => cout.ret = cin.env.body

\* two raising attempts, two sleeps, the third attempt's response returned
C3_Witness ==
    /\ ClientDone("request")
    /\ cout.log[1].trace = <<Call, Sleep(delay), Call, Sleep(delay), Call>>
    /\ cin.env.att[3] = "ok"
    /\ cout.ret = cin.env.body

AnyRequestFailed == \E k \in DOMAIN cout.log : ~cout.log[k].usable

\* C7 as claimed: in search, trending and popular, a request that fails or
\* yields an unusable response makes the whole operation give no data.
C7_FailureCollapsesOperation ==
    (cout.state = "done" /\ cin.op \in ListOps \cup {"search"} /\ AnyRequestFailed)
    => cout.ret = None

\* the ids a list operation fetches: the first ListLimit results
Fetched == SubSeq(cin.env.list.body.results, 1,
                  Min(ListLimit, Len(cin.env.list.body.results)))

\* C7 amended: search gives no record when either request fails; a list
\* operation gives no data when the list request fails, has no results, or an
\* exception leaves one of its requests; otherwise it returns one entry per
\* fetched id, in order: the record where the detail fetch gave one, None
\* where it did not.
C7_ListKeepsFailedEntriesAsNone ==
    cout.state = "done" =>
        /\ (cin.op = "search" /\ AnyRequestFailed) => cout.ret = None
        /\ (cin.op \in ListOps /\ (cout.exc \/ ~cout.log[1].usable)) => cout.ret = None
        /\ (cin.op \in ListOps /\ ~cout.exc /\ cout.log[1].usable) =>
            /\ cout.ret.kind = "list"
            /\ Len(cout.ret.items) = Len(Fetched)
            /\ \A k \in DOMAIN Fetched :
                cout.ret.items[k] =
                    IF cout.log[k + 1].usable
                    THEN [kind |-> "movie", id |-> Fetched[k], tmdb_link |-> Fetched[k]]
                    ELSE None

\* a list operation returned a list holding a record and a None
C7_Witness ==
    /\ cout.state = "done" /\ cin.op \in ListOps /\ ~cout.exc
    /\ cout.ret # None
    /\ \E j, k \in DOMAIN cout.ret.items :
        cout.ret.items[j] = None /\ cout.ret.items[k] # None

\* the body of the detail response that request k of the operation got
DetailOf(k) ==
    IF cin.op = "by_id" THEN DetailBody(cin.id, cin.env.shape)
    ELSE DetailBody(cout.log[k].id, EnvAt(cin.env.details, k - 1).shape)

\* the records an operation returned
Records ==
    IF cout.ret = None THEN {}
    ELSE IF cin.op \in ListOps
    THEN {cout.ret.items[k] : k \in DOMAIN cout.ret.items} \ {None}
    ELSE {cout.ret}

\* C14: a detail response without "id" gives no record, so every record that
\* get_movie_by_id returns, and every record of search, trending and popular,
\* carries the id of the response it was made from.
C14_RecordCarriesResponseId ==
    (cout.state = "done" /\ cin.op # "request") =>
        /\ \A rec \in Records : rec.id # NoId
        /\ \A k \in DOMAIN cout.log :
            (cout.log[k].url = "movie" /\ DetailOf(k).id = NoId) => ~cout.log[k].usable
        /\ cin.op \in {"by_id", "search"} =>
            \A rec \in Records : rec.id = DetailOf(Len(cout.log)).id
        /\ (cin.op \in ListOps /\ cout.ret # None) =>
            \A k \in DOMAIN cout.ret.items :
                cout.ret.items[k] # None => cout.ret.items[k].id = DetailOf(k + 1).id

\* a list whose second detail response had no "id": None at its place, and a
\* record with the response's id before it
C14_Witness ==
    /\ cout.state = "done" /\ cin.op \in ListOps /\ cout.ret # None
    /\ Len(cout.ret.items) >= 2
    /\ cin.env.details[2] = [att |-> Script(<<>>), shape |-> "noid"]
    /\ cout.ret.items[2] = None
    /\ cout.ret.items[1] # None /\ cout.ret.items[1].id = Fetched[1]

\* C15: a detail response that has "id" and a malformed optional nested field
\* still gives the record, the field at its default.
C15_MalformedFieldDegrades ==
    (/\ ClientDone("by_id")
     /\ cin.env.att[1] = "ok"
     /\ cin.env.shape = "malformed")
    => (cout.ret # None /\ cout.ret.id = cin.id)

\* C16: the requests of an operation follow one another (a request being a
\* call of make_tmdb_request, of up to max_retries invocations).  search:
\* the lookup, then the fetch of the first result's id and only when the
\* lookup gave a result: at most 2, just 1 when the lookup fails or is empty.
\* trending and popular: the list request, then the fetches of the first
\* ListLimit results in list order, unless a request raises: at most
\* 1 + ListLimit, and the entries returned are in list order.
C16_RequestsInSequence ==
    cout.state = "done" =>
        /\ \A k \in 1..(Len(cout.log) - 1) : cout.log[k].kind = "return"
        /\ cin.op = "search" =>
            /\ Len(cout.log) \in 1..2
            /\ cout.log[1].url = "search"
            /\ Len(cout.log) = 2 <=> cout.log[1].usable
            /\ Len(cout.log) = 2 =>
                /\ cout.log[2].url = "movie"
                /\ cout.log[2].id = cin.env.list.body.results[1]
            /\ (cout.log[1].failed \/ Len(cin.env.list.body.results) = 0) =>
                Len(cout.log) = 1
        /\ cin.op \in ListOps =>
            /\ Len(cout.log) \in 1..(1 + ListLimit)
            /\ cout.log[1].url = cin.op
            /\ ~cout.log[1].usable => Len(cout.log) = 1
            /\ \A k \in 2..Len(cout.log) :
                cout.log[k].url = "movie" /\ cout.log[k].id = Fetched[k - 1]
            /\ cout.ret # None =>
                /\ Len(cout.log) = 1 + Len(Fetched)
                /\ \A k \in DOMAIN cout.ret.items :
                    cout.ret.items[k] # None => cout.ret.items[k].tmdb_link = Fetched[k]

\* a list of more than ListLimit results: the list request and ListLimit
\* fetches, the entries in list order
C16_Witness ==
    /\ cout.state = "done" /\ cin.op \in ListOps /\ cout.ret # None
    /\ Len(cin.env.list.body.results) > ListLimit
    /\ Len(cout.log) = 1 + ListLimit
    /\ \A k \in 1..ListLimit :
        cout.ret.items[k] # None /\ cout.ret.items[k].tmdb_link = Fetched[k]

(***************************************************************************)
(* SpecStore: add_user, add_favorite and remove_favorite called one after  *)
(* the other.  calls keeps the last two calls: the function, its key, the  *)
(* number of documents of the key before it, and what it returned          *)
(* (add_user returns nothing: TRUE stands for it).                         *)
(***************************************************************************)
InitStore ==
    /\ cin = [op |-> "none"]
    /\ cout = Pending
    /\ StoreInit

LastTwo(s) == IF Len(s) > 2 THEN SubSeq(s, Len(s) - 1, Len(s)) ELSE s

CallAddFavorite(u, m) ==
    LET r == add_favorite(favorites, u, m)
    IN  /\ favorites' = r.favs
        /\ calls' = LastTwo(Append(calls, [fn |-> "add_favorite", key |-> <<u, m>>,
                                           before |-> favorites[<<u, m>>], ret |-> r.ret]))
        /\ UNCHANGED <<cin, cout, users, searches, admins, tasks, last>>

CallRemoveFavorite(u, m) ==
    LET r == remove_favorite(favorites, u, m)
    IN  /\ favorites' = r.favs
        /\ calls' = LastTwo(Append(calls, [fn |-> "remove_favorite", key |-> <<u, m>>,
                                           before |-> favorites[<<u, m>>], ret |-> r.ret]))
        /\ UNCHANGED <<cin, cout, users, searches, admins, tasks, last>>

CallAddUser(u) ==
    /\ users' = add_user(users, u)
    /\ calls' = LastTwo(Append(calls, [fn |-> "add_user", key |-> <<u, NoId>>,
                                       before |-> IF u \in users THEN 1 ELSE 0,
                                       ret |-> TRUE]))
    /\ UNCHANGED <<cin, cout, searches, favorites, admins, tasks, last>>

NextStore ==
    \E u \in Users :
        \/ CallAddUser(u)
        \/ \E m \in Movies : CallAddFavorite(u, m) \/ CallRemoveFavorite(u, m)

SpecStore == InitStore /\ [][NextStore]_vars

TwoAdds ==
    /\ Len(calls) = 2
    /\ calls[1].fn = "add_favorite" /\ calls[2].fn = "add_favorite"
    /\ calls[1].key = calls[2].key

\* C4: two calls of add_favorite in a row with the same key leave exactly one
\* document of that key and the second returns False; the first returns True
\* when the key had no document before it.
C4_AddTwiceKeepsOne ==
    TwoAdds =>
        /\ favorites[calls[2].key] = 1
        /\ calls[2].ret = FALSE
        /\ calls[1].before = 0 => calls[1].ret = TRUE

C4_Witness ==
    /\ TwoAdds
    /\ calls[1].before = 0 /\ calls[1].ret = TRUE /\ calls[2].ret = FALSE
    /\ favorites[calls[2].key] = 1

LastCall(s) == s[Len(s)]

\* C5: a call of remove_favorite for a key that has no document returns False
\* and leaves favorites, users, searches and admins as they were.
C5_RemoveAbsentChangesNothing ==
    [][(/\ calls' # <<>>
        /\ LastCall(calls').fn = "remove_favorite"
        /\ favorites[LastCall(calls').key] = 0)
       => (/\ LastCall(calls').ret = FALSE
           /\ UNCHANGED <<users, searches, favorites, admins>>)]_vars

C5_Witness ==
    /\ calls # <<>>
    /\ LastCall(calls).fn = "remove_favorite"
    /\ LastCall(calls).before = 0 /\ LastCall(calls).ret = FALSE
    /\ favorites[LastCall(calls).key] = 0
    /\ \E k \in Keys : favorites[k] = 1
    /\ users # {}

(***************************************************************************)
(* SpecFav: handle_favorite_callback ("fav") and handle_remove_favorite    *)
(* ("remove") as tasks that run concurrently.  A task can be suspended at  *)
(* an await only: at await get_movie_by_id(...), and at the await          *)
(* query.answer(...) that ends it.  add_favorite and remove_favorite hold  *)
(* no await (pymongo's calls are synchronous), so each runs in one step.   *)
(***************************************************************************)
FavKinds == {"fav", "remove"}
\* how the API may answer the handler's detail fetch
FavEnvs == DetailClasses \cup {[att |-> Script(<<>>), shape |-> "malformed"]}

InitFav ==
    /\ cin = [op |-> "none"]
    /\ cout = Pending
    /\ StoreInit

\* the button is pressed: the handler runs up to its fetch
FavStart(t, kind, u, m) ==
    /\ tasks[t] = Idle
    /\ tasks' = [tasks EXCEPT ![t] = [pc |-> "fetch", kind |-> kind, user |-> u, movie |-> m]]
    /\ UNCHANGED <<cin, cout, users, searches, favorites, admins, calls, last>>

\* the fetch resolves: with no movie, or an exception, the handler answers
\* and ends; with a movie it goes on to the store
FavFetch(t, env) ==
    /\ tasks[t].pc = "fetch"
    /\ LET d == get_movie_by_id(tasks[t].movie, env)
       IN  tasks' = [tasks EXCEPT ![t] =
                        IF d.exc \/ d.ret = None THEN Idle ELSE [@ EXCEPT !.pc = "fetched"]]
    /\ UNCHANGED <<cin, cout, users, searches, favorites, admins, calls, last>>

\* add_favorite or remove_favorite, and the answer
FavCommit(t) ==
    /\ tasks[t].pc = "fetched"
    /\ LET r == IF tasks[t].kind = "fav"
                THEN add_favorite(favorites, tasks[t].user, tasks[t].movie)
                ELSE remove_favorite(favorites, tasks[t].user, tasks[t].movie)
       IN  favorites' = r.favs
    /\ tasks' = [tasks EXCEPT ![t] = Idle]
    /\ UNCHANGED <<cin, cout, users, searches, admins, calls, last>>

NextFav ==
    \E t \in 1..MaxTasks :
        \/ \E kind \in FavKinds, u \in Users, m \in Movies : FavStart(t, kind, u, m)
        \/ \E env \in FavEnvs : FavFetch(t, env)
        \/ FavCommit(t)

SpecFav == InitFav /\ [][NextFav]_vars

\* C6: however the add and remove handler tasks interleave, the favorites
\* collection never holds more than one document of the same key.
C6_AtMostOnePerKey == \A k \in Keys : favorites[k] <= 1

\* two add tasks for the same key, both past their fetch, the key not yet there
C6_Witness ==
    \E t1, t2 \in 1..MaxTasks :
        /\ t1 # t2
        /\ tasks[t1].pc = "fetched" /\ tasks[t2].pc = "fetched"
        /\ tasks[t1].kind = "fav" /\ tasks[t2].kind = "fav"
        /\ tasks[t1].user = tasks[t2].user /\ tasks[t1].movie = tasks[t2].movie
        /\ favorites[<<tasks[t1].user, tasks[t1].movie>>] = 0

(***************************************************************************)
(* The handlers main() registers, one update handled at a time (the        *)
(* Application is built without concurrent_updates).  A handler's inputs   *)
(* are drawn where the handler reads them: the user, the text after the    *)
(* command, how the API answers its requests, and whether a store call     *)
(* raises.                                                                 *)
(*   Spec           the commands that work on users and searches, and the  *)
(*                  inline query;                                          *)
(*   SpecFavorites  /favorites and the three buttons, which work on        *)
(*                  favorites.                                             *)
(***************************************************************************)
\* the text after /search or /broadcast, stripped, as its words
Texts == {<<>>, <<"Avatar", "2009">>}
\* the text after /id: nothing, not a number, or the digits of an id
IdArgs == {[kind |-> "empty", id |-> NoId], [kind |-> "alpha", id |-> NoId]}
              \cup {[kind |-> "digits", id |-> m] : m \in Movies}

\* how the API answers a handler's requests
BotInlineEnvs ==
    {[list |-> [att |-> a, body |-> ListBody(1, 0)], details |-> <<>>] :
        a \in Scripts \ {Script(<<>>)}}
    \cup
    {[list |-> [att |-> Script(<<>>), body |-> b], details |-> <<>>] :
        b \in {ListBody(0, 0), ListBody(1, 0)}}
BotSearchEnvs ==
    BotInlineEnvs
    \cup
    {[list |-> [att |-> Script(<<>>), body |-> ListBody(1, 0)], details |-> <<d>>] :
        d \in FavEnvs}
BotListEnvs ==
    {[list |-> [att |-> a, body |-> ListBody(2, 0)], details |-> NoDetails] :
        a \in Scripts \ {Script(<<>>)}}
    \cup
    {[list |-> [att |-> Script(<<>>), body |-> b], details |-> NoDetails] :
        b \in {ListBody(0, 0), ListBody(2, 2)}}
    \cup
    {[list |-> [att |-> Script(<<>>), body |-> ListBody(2, 0)], details |-> <<d1, d2>>] :
        d1 \in DetailClasses, d2 \in DetailClasses}

frame == <<cin, cout, calls, tasks>>

\* start: add_user is called outside any try
Start(u) ==
    /\ \E raises \in BOOLEAN :
        IF raises
        THEN /\ users' = users
             /\ last' = Result("start", u, NoId, "none", TRUE, TRUE)
        ELSE /\ users' = add_user(users, u)
             /\ last' = Result("start", u, NoId, "help", FALSE, FALSE)
    /\ UNCHANGED <<searches, favorites, admins, frame>>

\* contact_us: a reply and nothing else
ContactUs(u) ==
    /\ last' = Result("contact_us", u, NoId, "contact", FALSE, FALSE)
    /\ UNCHANGED <<users, searches, favorites, admins, frame>>

\* the first statement of the try of most commands, add_user, raises: the
\* except clause replies
AddUserRaises(handler, u) ==
    /\ users' = users
    /\ last' = Result(handler, u, NoId, "error", TRUE, FALSE)

\* what search_movie and search_by_id do with the client's answer r: log the
\* search when there is a movie, and send_movie_response
LogAndRespond(handler, u, query, m, r) ==
    IF r.exc
    THEN /\ searches' = searches
         /\ last' = After(r, Result(handler, u, m, "error", TRUE, FALSE))
    ELSE IF r.ret = None
    THEN /\ searches' = searches
         /\ last' = After(r, Result(handler, u, m, "not_found", FALSE, FALSE))
    ELSE \E raises \in BOOLEAN :
        IF raises
        THEN /\ searches' = searches
             /\ last' = After(r, Result(handler, u, m, "error", TRUE, FALSE))
        ELSE /\ Len(searches) < MaxSearches
             /\ searches' = log_search(searches, u, query, r.ret.id)
             /\ last' = After(r, Result(handler, u, m, "movie", FALSE, FALSE))

\* search_movie (the url's query string is not modelled: env scripts the
\* API's answers whatever is asked)
SearchMovie(u) ==
    /\ \/ AddUserRaises("search", u) /\ searches' = searches
       \/ /\ users' = add_user(users, u)
          /\ \E text \in Texts :
              IF text = <<>>
              THEN /\ searches' = searches
                   /\ last' = Result("search", u, NoId, "usage", FALSE, FALSE)
              ELSE \E env \in BotSearchEnvs :
                      LogAndRespond("search", u, [kind |-> "text", text |-> text], NoId,
                                    get_movie_by_name(env))
    /\ UNCHANGED <<favorites, admins, frame>>

\* search_by_id
SearchById(u) ==
    /\ \/ AddUserRaises("id", u) /\ searches' = searches
       \/ /\ users' = add_user(users, u)
          /\ \E arg \in IdArgs :
              IF arg.kind # "digits"
              THEN /\ searches' = searches
                   /\ last' = Result("id", u, NoId, "usage", FALSE, FALSE)
              ELSE \E env \in FavEnvs :
                      LogAndRespond("id", u, [kind |-> "id", id |-> arg.id], arg.id,
                                    get_movie_by_id(arg.id, env))
    /\ UNCHANGED <<favorites, admins, frame>>

\* show_trending and show_popular differ in the client operation only
ShowList(handler, u, r) ==
    /\ users' = add_user(users, u)
    /\ last' =
        IF r.exc THEN Result(handler, u, NoId, "error", TRUE, FALSE)
        ELSE IF r.ret = None THEN Result(handler, u, NoId, "could_not_fetch", FALSE, FALSE)
        ELSE Result(handler, u, NoId, "list", FALSE, FALSE)

ShowTrending(u) ==
    /\ \/ AddUserRaises("trending", u)
       \/ \E env \in BotListEnvs : ShowList("trending", u, get_trending_movies(env))
    /\ UNCHANGED <<searches, favorites, admins, frame>>

ShowPopular(u) ==
    /\ \/ AddUserRaises("popular", u)
       \/ \E env \in BotListEnvs : ShowList("popular", u, get_popular_movies(env))
    /\ UNCHANGED <<searches, favorites, admins, frame>>

\* a store call after add_user raises (is_admin's find_one, the counts, the
\* aggregate, find): the except clause replies
StoreCallRaises(handler, u) ==
    last' = Result(handler, u, NoId, "error", TRUE, FALSE)

\* show_stats: add_user comes before the is_admin check
ShowStats(u) ==
    /\ \/ AddUserRaises("stats", u)
       \/ /\ users' = add_user(users, u)
          /\ \/ StoreCallRaises("stats", u)
             \/ IF ~is_admin(admins, u)
                THEN last' = Result("stats", u, NoId, "denied", FALSE, FALSE)
                ELSE \E ids \in Orders(top_movies(searches)),
                        envs \in [1..MaxSearches -> DetailClasses] :
                        last' = IF stats_raises(ids, envs, 1)
                                THEN Result("stats", u, NoId, "error", TRUE, FALSE)
                                ELSE Result("stats", u, NoId, "stats", FALSE, FALSE)
    /\ UNCHANGED <<searches, favorites, admins, frame>>

\* broadcast_message: add_user comes before the is_admin check; order is the
\* order get_all_users gives the users in, failing the recipients whose
\* send_message raises
BroadcastMessage(u) ==
    /\ \/ AddUserRaises("broadcast", u)
       \/ /\ users' = add_user(users, u)
          /\ \/ StoreCallRaises("broadcast", u)
             \/ IF ~is_admin(admins, u)
                THEN last' = Result("broadcast", u, NoId, "denied", FALSE, FALSE)
                ELSE \E text \in Texts :
                    IF text = <<>>
                    THEN last' = Result("broadcast", u, NoId, "usage", FALSE, FALSE)
                    ELSE \E order \in Orders(get_all_users(add_user(users, u))),
                            failing \in SUBSET add_user(users, u) :
                            last' = send_all(order, failing, 1,
                                        [Result("broadcast", u, NoId, "summary",
                                                failing # {}, FALSE)
                                            EXCEPT !.failing = failing])
    /\ UNCHANGED <<searches, favorites, admins, frame>>

\* handle_inline_query: the except clause logs and answers nothing
HandleInlineQuery(u) ==
    /\ \E text \in Texts :
        IF text = <<>>
        THEN last' = Result("inline", u, NoId, "none", FALSE, FALSE)
        ELSE \E env \in BotInlineEnvs :
            LET r == make_tmdb_request(env.list)
            IN  last' =
                    IF r.kind = "raise" THEN Result("inline", u, NoId, "none", TRUE, FALSE)
                    ELSE IF Falsy(r.val) \/ Len(r.val.results) = 0
                    THEN Result("inline", u, NoId, "none", FALSE, FALSE)
                    ELSE Result("inline", u, NoId, "inline_results", FALSE, FALSE)
    /\ UNCHANGED <<users, searches, favorites, admins, frame>>

Init ==
    /\ cin = [op |-> "none"]
    /\ cout = Pending
    /\ StoreInit

Next ==
    \E u \in Users :
        \/ Start(u)
        \/ ContactUs(u)
        \/ SearchMovie(u)
        \/ SearchById(u)
        \/ ShowTrending(u)
        \/ ShowPopular(u)
        \/ ShowStats(u)
        \/ BroadcastMessage(u)
        \/ HandleInlineQuery(u)

Spec == Init /\ [][Next]_vars

\* show_favorites
ShowFavorites(u) ==
    /\ \/ AddUserRaises("favorites", u)
       \/ /\ users' = add_user(users, u)
          /\ \/ StoreCallRaises("favorites", u)
             \/ last' = IF get_favorites(favorites, u) = {}
                        THEN Result("favorites", u, NoId, "no_favorites", FALSE, FALSE)
                        ELSE Result("favorites", u, NoId, "favorites", FALSE, FALSE)
    /\ UNCHANGED <<searches, favorites, admins, frame>>

\* handle_view_favorite
HandleViewFavorite(u, m) ==
    /\ \E env \in FavEnvs :
        LET r == get_movie_by_id(m, env)
        IN  last' =
                IF r.exc THEN After(r, Result("view", u, m, "error", TRUE, FALSE))
                ELSE IF r.ret = None
                THEN After(r, Result("view", u, m, "not_found", FALSE, FALSE))
                ELSE After(r, Result("view", u, m, "movie", FALSE, FALSE))
    /\ UNCHANGED <<users, searches, favorites, admins, frame>>

\* a faulty variant: the store call is made before the fetch is looked at
NoMovie_store_first(handler, u, m, r) ==
    /\ r.exc \/ r.ret = None
    /\ favorites' = IF handler = "fav" THEN add_favorite(favorites, u, m).favs
                    ELSE remove_favorite(favorites, u, m).favs
    /\ last' = IF r.exc THEN After(r, Result(handler, u, m, "error", TRUE, FALSE))
               ELSE After(r, Result(handler, u, m, "not_found", FALSE, FALSE))

\* what the two favorite buttons do before they reach the store: with an
\* exception of the fetch, or no movie, they answer and end
NoMovie(handler, u, m, r) ==
    /\ r.exc \/ r.ret = None
    /\ favorites' = favorites
    /\ last' = IF r.exc THEN After(r, Result(handler, u, m, "error", TRUE, FALSE))
               ELSE After(r, Result(handler, u, m, "not_found", FALSE, FALSE))

\* the store call of a button raises: the except clause answers
StoreRaises(handler, u, m, r) ==
    /\ ~r.exc /\ r.ret # None
    /\ favorites' = favorites
    /\ last' = After(r, Result(handler, u, m, "error", TRUE, FALSE))

\* handle_favorite_callback
HandleFavoriteCallback(u, m) ==
    /\ \E env \in FavEnvs :
        LET r == get_movie_by_id(m, env)
            a == add_favorite(favorites, u, m)
        IN  \/ NoMovie("fav", u, m, r)
            \/ StoreRaises("fav", u, m, r)
            \/ /\ ~r.exc /\ r.ret # None
               /\ favorites' = a.favs
               /\ last' = After(r, Result("fav", u, m,
                                           IF a.ret THEN "added" ELSE "already",
                                           FALSE, FALSE))
    /\ UNCHANGED <<users, searches, admins, frame>>

\* handle_remove_favorite
HandleRemoveFavorite(u, m) ==
    /\ \E env \in FavEnvs :
        LET r == get_movie_by_id(m, env)
            d == remove_favorite(favorites, u, m)
        IN  \/ NoMovie("remove", u, m, r)
            \/ StoreRaises("remove", u, m, r)
            \/ /\ ~r.exc /\ r.ret # None
               /\ favorites' = d.favs
               /\ last' = After(r, Result("remove", u, m,
                                           IF d.ret THEN "removed" ELSE "wasnt_in_favorites",
                                           FALSE, FALSE))
    /\ UNCHANGED <<users, searches, admins, frame>>

NextFavorites ==
    \E u \in Users :
        \/ ShowFavorites(u)
        \/ \E m \in Movies :
            \/ HandleViewFavorite(u, m)
            \/ HandleFavoriteCallback(u, m)
            \/ HandleRemoveFavorite(u, m)

SpecFavorites == Init /\ [][NextFavorites]_vars

(***************************************************************************)
(* Properties of the commands.                                             *)
(***************************************************************************)
AdminOnly == {"stats", "broadcast"}
\* the step is a run of an admin-only command by a user who is in neither
\* admin list
DeniedRun == last'.handler \in AdminOnly /\ last'.user \notin admins \cup AdminIds

\* C8 as stated: an admin-only command of a non-admin, when nothing raises,
\* is answered with the denial, modifies none of users, searches, favorites
\* and admins, and sends nothing to another user.
C8_DeniedChangesNothing ==
    [][(DeniedRun /\ ~last'.failed)
       => (/\ last'.reply = "denied"
           /\ last'.sent = <<>>
           /\ UNCHANGED <<users, searches, favorites, admins>>)]_vars

\* C8, amended: an admin-only command of a non-admin is answered with the
\* denial, or with the error reply when a store call raised; it sends nothing
\* to another user and leaves searches, favorites and admins as they were;
\* of users it changes the invoking user's own record only, which the denied
\* command has upserted.
C8_DeniedUpsertsInvokerOnly ==
    [][DeniedRun
       => (/\ last'.reply \in {"denied", "error"}
           /\ last'.reply = "error" <=> last'.failed
           /\ last'.sent = <<>>
           /\ users \subseteq users' /\ users' \subseteq users \cup {last'.user}
           /\ last'.reply = "denied" => last'.user \in users'
           /\ UNCHANGED <<searches, favorites, admins>>)]_vars

C8_Witness ==
    /\ last.handler \in AdminOnly
    /\ last.user \notin admins \cup AdminIds
    /\ last.reply = "denied"
    /\ users = {last.user}

Summary == last.handler = "broadcast" /\ last.reply = "summary"

\* C9: a broadcast that reaches its summary has tried every user of the users
\* collection exactly once, whichever sends raised, and success + failures
\* is the number of users.
C9_BroadcastTriesEveryUserOnce ==
    Summary =>
        /\ Len(last.sent) = Cardinality(users)
        /\ {last.sent[i] : i \in DOMAIN last.sent} = users
        /\ last.success + last.failures = Cardinality(users)
        /\ last.success = Cardinality(users \ last.failing)
        /\ last.failures = Cardinality(users \cap last.failing)

C9_Witness ==
    /\ Summary
    /\ Len(last.sent) = MaxUsers
    /\ last.sent[1] \in last.failing
    /\ last.failures >= 1 /\ last.success >= 1

\* C10: whatever raises while a handler runs is caught in the handler and
\* answered with a reply: no exception leaves a handler.
C10_FailuresAbsorbed ==
    last.failed => (~last.escaped /\ last.reply # "none")

\* a run of search_movie or search_by_id that put its query to the API
Searched == last.handler \in {"search", "id"} /\ last.fetch # "none"

\* C11: a search by title or by id whose request the API failed on every
\* attempt is answered with the same "not found" reply as a search the API
\* answered without a matching movie.
C11_OutageRepliesNotFound ==
    (Searched /\ last.fetch \in {"down", "empty"}) => last.reply = "not_found"

\* C13: every search by title or by id that put a query to the API and ended
\* without an error appends one entry to the searches log, with the user's
\* id, and a movie id exactly when a movie was found (none otherwise).
C13_EverySearchIsLogged ==
    [][(/\ last'.handler \in {"search", "id"}
        /\ last'.fetch # "none"
        /\ ~last'.failed)
       => (/\ Len(searches') = Len(searches) + 1
           /\ SubSeq(searches', 1, Len(searches)) = searches
           /\ searches'[Len(searches')].user_id = last'.user
           /\ last'.reply = "movie" <=> searches'[Len(searches')].movie_id # NoId)]_vars

(***************************************************************************)
(* Properties of /favorites and the buttons, checked under SpecFavorites.  *)
(***************************************************************************)
\* C12: after any handler run that ended without a failure, the users
\* collection holds the record of the user who sent the update.
C12_EveryInteractionUpserts ==
    (last.handler # "none" /\ ~last.failed) => last.user \in users

Buttons == {"fav", "remove"}

\* C17: a run of the add or the remove button whose fetch of the movie gave
\* no record, or raised, leaves the favorites collection as it was and
\* answers "not found" or the error.
C17_NoRecordNoStoreChange ==
    [][(last'.handler \in Buttons /\ last'.fetch \in {"down", "empty"})
       => (/\ UNCHANGED favorites
           /\ last'.reply \in {"not_found", "error"})]_vars

\* the remove button pressed on an existing favorite while the API is down:
\* the favorite is still there
C17_Witness ==
    /\ last.handler = "remove" /\ last.fetch = "down"
    /\ favorites[<<last.user, last.movie>>] = 1

====
